---- MODULE Spec2Model ----
(***************************************************************************)
(* The station engine of the OCPP charge point simulator (class            *)
(* ChargePoint): station / connector status, the transaction lifecycle,    *)
(* the heartbeat timer and the per-connector auto meter value timers.      *)
(*                                                                         *)
(* Every handler of the class is an operator over a record s holding the   *)
(* object's fields (and the host's timer table, the transport's state and  *)
(* what the handler emitted); an action applies one handler to the current *)
(* state and commits the result.                                           *)
(***************************************************************************)
EXTENDS Integers, Sequences, FiniteSets, TLC

\* ------------------------------------------------------- constructor argument
NumConnectors == 2      \* connectorCount given to the constructor

\* ------------------------------------------------------------------ bounds
MaxHandle == 3          \* number of setInterval calls of one run
MaxMeter == 20          \* largest meterValue a tick or setMeterValue produces
MaxClock == 1           \* readings of the wall clock are 0..MaxClock
MaxPendingClose == 1    \* close notifications of earlier sockets in flight

\* --------------------------------------------------------------- constants
SentinelCode == 1005    \* close code "no status received"

\* ------------------------------------------------------------ input sets
Existing == 1..NumConnectors
ConnIds == 1..(NumConnectors + 1)
TagIds == {"TAG1", "TAG2"}
CloseCodes == {SentinelCode, 1006}
CloseReasons == {"", "timeout"}
Availabilities == {"Operative", "Inoperative"}
Formats == {"detailed", "simple"}
Periods == {30, 60}
MeterInputs == {0, 5}
StatusInputs == {"Charging", "Faulted"}

\* null / undefined is the empty sequence, a present value v is <<v>>
Null == <<>>
Some(v) == <<v>>

\* autoMeterValueSetting values the constructor is given
NoSetting == Null
Configured == Some([enabled |-> TRUE, interval |-> 1, value |-> 10])
ZeroInterval == Some([enabled |-> TRUE, interval |-> 0, value |-> 10])
Settings == {NoSetting, Configured, ZeroInterval}
StepInputs == {10}
TransactionIds == {7, 8}

VARIABLES
  status,                      \* _status
  error,                       \* _error
  connectors,                  \* _connectors: id -> Connector
  autoMeterValueSetting,       \* _autoMeterValueSetting
  autoMeterValueIntervals,     \* _autoMeterValueIntervals: id -> handle (0: no entry)
  heartbeat,                   \* _heartbeat: handle (0: null)
  meterValueFormat,            \* _meterValueFormat
  availabilityChangeCallbacks, \* ids with a registered availability subscriber
  statusChangeCallback,        \* TRUE when a station status subscriber is set
  timers,                      \* the host's table of live setInterval timers
  nextHandle,                  \* the next handle setInterval returns
  clock,                       \* the last reading of new Date()
  ws,                          \* the transport's current socket
  pendingClose,                \* close notifications of earlier sockets in flight
  op,                          \* the operation that produced this state
  out,                         \* MessageChannel calls made by that operation
  log,                         \* Logger calls made by that operation
  cb                           \* subscriber invocations made by that operation

vars == <<status, error, connectors, autoMeterValueSetting, autoMeterValueIntervals,
          heartbeat, meterValueFormat, availabilityChangeCallbacks,
          statusChangeCallback, timers, nextHandle, clock, ws, pendingClose,
          op, out, log, cb>>

\* the fields as one record, with the traces of the operation emptied
Cur(name, args) ==
  [status |-> status, error |-> error, connectors |-> connectors,
   autoMeterValueSetting |-> autoMeterValueSetting,
   autoMeterValueIntervals |-> autoMeterValueIntervals,
   heartbeat |-> heartbeat, meterValueFormat |-> meterValueFormat,
   availabilityChangeCallbacks |-> availabilityChangeCallbacks,
   statusChangeCallback |-> statusChangeCallback,
   timers |-> timers, nextHandle |-> nextHandle, clock |-> clock,
   ws |-> ws, pendingClose |-> pendingClose,
   op |-> [name |-> name, args |-> args, ret |-> Null, threw |-> FALSE,
           statusWrites |-> <<>>, cleared |-> <<>>],
   out |-> <<>>, log |-> <<>>, cb |-> <<>>]

Commit(s) ==
  /\ status' = s.status
  /\ error' = s.error
  /\ connectors' = s.connectors
  /\ autoMeterValueSetting' = s.autoMeterValueSetting
  /\ autoMeterValueIntervals' = s.autoMeterValueIntervals
  /\ heartbeat' = s.heartbeat
  /\ meterValueFormat' = s.meterValueFormat
  /\ availabilityChangeCallbacks' = s.availabilityChangeCallbacks
  /\ statusChangeCallback' = s.statusChangeCallback
  /\ timers' = s.timers
  /\ nextHandle' = s.nextHandle
  /\ clock' = s.clock
  /\ ws' = s.ws
  /\ pendingClose' = s.pendingClose
  /\ op' = s.op
  /\ out' = s.out
  /\ log' = s.log
  /\ cb' = s.cb

\* ------------------------------------------------------------ collaborators
\* Logger.info / Logger.error
loggerInfo(s, about) == [s EXCEPT !.log = Append(@, [level |-> "info", about |-> about])]
loggerError(s, about) == [s EXCEPT !.log = Append(@, [level |-> "error", about |-> about])]

\* a fire-and-forget call of OCPPMessageHandler
send(s, msg) == [s EXCEPT !.out = Append(@, msg)]

\* new Date(): the clock never runs backwards
readClock(s, now) == [s EXCEPT !.clock = now]

\* setInterval: a fresh handle (> 0, never one handed out before) and a live timer
setInterval(s, kind, connectorId, interval, value) ==
  [s EXCEPT !.timers = @ \cup {[handle |-> s.nextHandle, kind |-> kind,
                                connectorId |-> connectorId,
                                interval |-> interval, value |-> value]},
            !.nextHandle = @ + 1]

\* clearInterval: the timer of that handle, if live, is gone; op.cleared lists
\* the handles the operation cleared, each with the number of messages the
\* operation had sent by then
clearInterval(s, handle) ==
  [s EXCEPT !.timers = {t \in @ : t.handle # handle},
            !.op.cleared = Append(@, [handle |-> handle, sent |-> Len(s.out)])]

\* ------------------------------------------------------------------ getters
hasConnector(s, connectorId) == connectorId \in DOMAIN s.connectors

Connector(id) ==
  [id |-> id, status |-> "Unavailable", availability |-> "Operative",
   meterValue |-> 0, transaction |-> Null]

\* the connectorNumber getter: the size of the map
connectorNumber(s) == Cardinality(DOMAIN s.connectors)

\* a connectors getter that hands out the map of the station itself
getConnectors_Live(s) == [entries |-> s.connectors, live |-> TRUE]

\* the connectors getter: a new Map of the same entries, not the station's own
getConnectors(s) == [entries |-> s.connectors, live |-> FALSE]

\* a caller deletes key k from, or sets key k in, the map the getter returned;
\* the station sees it only if that map is its own
changeReturnedMap(s, k) ==
  LET m == getConnectors(s)
      changed == IF k \in DOMAIN m.entries
                 THEN [j \in DOMAIN m.entries \ {k} |-> m.entries[j]]
                 ELSE [j \in DOMAIN m.entries \cup {k} |->
                         IF j = k THEN Connector(k) ELSE m.entries[j]]
  IN IF m.live THEN [s EXCEPT !.connectors = changed] ELSE s

\* ------------------------------------------------- status of the connectors
\* connector.status = newStatus: one write of the status of one connector;
\* op.statusWrites lists the connectors written by the operation, in order
setConnectorStatus(s, connectorId, newStatus) ==
  [s EXCEPT !.connectors[connectorId].status = newStatus,
            !.op.statusWrites = Append(@, connectorId)]

\* updateConnectorStatus that writes the status and sends no notification
updateConnectorStatus_NoNotification(s, connectorId, newStatus) ==
  IF hasConnector(s, connectorId)
  THEN setConnectorStatus(s, connectorId, newStatus)
  ELSE loggerError(s, connectorId)

updateConnectorStatus(s, connectorId, newStatus) ==
  IF hasConnector(s, connectorId)
  THEN send(setConnectorStatus(s, connectorId, newStatus),
            [type |-> "StatusNotification", connectorId |-> connectorId,
             status |-> newStatus])
  ELSE loggerError(s, connectorId)

\* the inner forEach of updateAllConnectorsStatus, from connector k on: a write
\* to every connector of the copy the getter returns
RECURSIVE setEveryStatusFrom(_, _, _)
setEveryStatusFrom(s, k, newStatus) ==
  IF k \notin DOMAIN getConnectors(s).entries THEN s
  ELSE setEveryStatusFrom(setConnectorStatus(s, k, newStatus), k + 1, newStatus)

setEveryStatus(s, newStatus) == setEveryStatusFrom(s, 1, newStatus)

\* the outer forEach, from connector k on, in insertion order 1..N
RECURSIVE updateAllFrom(_, _, _)
updateAllFrom(s, k, newStatus) ==
  IF ~hasConnector(s, k) THEN s
  ELSE updateAllFrom(
         send(setEveryStatus(setConnectorStatus(s, k, newStatus), newStatus),
              [type |-> "StatusNotification", connectorId |-> k, status |-> newStatus]),
         k + 1, newStatus)

updateAllConnectorsStatus(s, newStatus) == updateAllFrom(s, 1, newStatus)

\* the status setter: the field, then the station subscriber if one is set
setStatus(s, newStatus) ==
  LET s1 == [s EXCEPT !.status = newStatus]
  IN IF s.statusChangeCallback
     THEN [s1 EXCEPT !.cb = Append(@, [kind |-> "status", value |-> newStatus])]
     ELSE s1

\* the error setter: the field, then the error subscriber
setError(s, newError) ==
  [s EXCEPT !.error = newError,
            !.cb = Append(@, [kind |-> "error", value |-> newError])]

\* -------------------------------------------------------------- connection
\* the template literal of the close handler; "" is EmptyString
closeMessage(code, reason) ==
  [text |-> "WebSocket closed", code |-> Some(code), reason |-> Some(reason)]
EmptyString == [text |-> "", code |-> Null, reason |-> Null]

\* OCPPWebSocket.connect: a new socket, which will report open or close
webSocketConnect(s) == [s EXCEPT !.ws = "connecting"]

\* OCPPWebSocket.disconnect: the socket is closed; its close notification
\* is delivered later
webSocketDisconnect(s) ==
  IF s.ws = "closed" THEN s
  ELSE [s EXCEPT !.ws = "closed", !.pendingClose = @ + 1]

connect(s) == webSocketConnect(s)

\* boot that leaves the error of an earlier close in place
boot_KeepError(s) ==
  LET s1 == send(s, [type |-> "BootNotification"])
      s2 == setStatus(s1, "Available")
  IN updateAllConnectorsStatus(s2, "Available")

boot(s) ==
  LET s1 == send(s, [type |-> "BootNotification"])
      s2 == setStatus(s1, "Available")
      s3 == updateAllConnectorsStatus(s2, "Available")
  IN setError(s3, EmptyString)

\* a close handler whose message leaves the reason out
onClose_NoReason(s, code, reason) ==
  LET s1 == setStatus(s, "Unavailable")
      s2 == updateAllConnectorsStatus(s1, "Unavailable")
      s3 == loggerError(s2, closeMessage(code, reason))
  IN IF code # SentinelCode THEN setError(s3, closeMessage(code, "")) ELSE s3

\* a close handler that surfaces every close, the sentinel's too
onClose_AlwaysError(s, code, reason) ==
  LET s1 == setStatus(s, "Unavailable")
      s2 == updateAllConnectorsStatus(s1, "Unavailable")
      s3 == loggerError(s2, closeMessage(code, reason))
  IN setError(s3, closeMessage(code, reason))

\* a close handler that also stops the heartbeat
onClose_ClearsHeartbeat(s, code, reason) ==
  LET s1 == setStatus(s, "Unavailable")
      s2 == updateAllConnectorsStatus(s1, "Unavailable")
      s3 == loggerError(s2, closeMessage(code, reason))
      s4 == IF code # SentinelCode THEN setError(s3, closeMessage(code, reason)) ELSE s3
  IN IF s4.heartbeat # 0 THEN clearInterval(s4, s4.heartbeat) ELSE s4

\* the onClose callback given to the transport by connect
onClose(s, code, reason) ==
  LET s1 == setStatus(s, "Unavailable")
      s2 == updateAllConnectorsStatus(s1, "Unavailable")
      s3 == loggerError(s2, closeMessage(code, reason))
  IN IF code # SentinelCode THEN setError(s3, closeMessage(code, reason)) ELSE s3

\* disconnect that resets the error as boot does
disconnect_ClearsError(s) ==
  LET s1 == loggerInfo(s, "Disconnecting from WebSocket")
      s2 == [s1 EXCEPT !.status = "Unavailable"]
  IN setError(webSocketDisconnect(s2), EmptyString)

disconnect(s) ==
  LET s1 == loggerInfo(s, "Disconnecting from WebSocket")
      s2 == [s1 EXCEPT !.status = "Unavailable"]
  IN webSocketDisconnect(s2)

reset(s) == connect(disconnect(s))

\* ------------------------------------------------------------- meter values
setMeterValue(s, connectorId, meterValue) ==
  IF hasConnector(s, connectorId)
  THEN [s EXCEPT !.connectors[connectorId].meterValue = meterValue]
  ELSE loggerError(s, connectorId)

\* a sampled value; value is a string for the fixed samples
Sample(unit, phase, value, location, measurand) ==
  [unit |-> unit, phase |-> phase, value |-> value, location |-> location,
   measurand |-> measurand]

\* Number.toString of an integer, and of an integer divided by 1000:
\* the decimal number whole + milli/1000
IntToString(n) == [whole |-> n, milli |-> 0]
DivThousandToString(n) == [whole |-> n \div 1000, milli |-> n % 1000]

\* generateDetailedMeterValues that ignores the format and always builds the
\* detailed snapshot
generateDetailedMeterValues_AlwaysDetailed(s, meterValue) ==
  [timestamp |-> s.clock,
   sampledValue |-> <<
     Sample(Some("V"), Some("L1"), "236.7", Some("Outlet"), "Voltage"),
     Sample(Some("V"), Some("L2"), "235.6", Some("Outlet"), "Voltage"),
     Sample(Some("V"), Some("L3"), "236.7", Some("Outlet"), "Voltage"),
     Sample(Some("A"), Some("L1"), "0.00", Some("Outlet"), "Current.Import"),
     Sample(Some("A"), Some("L2"), "0.00", Some("Outlet"), "Current.Import"),
     Sample(Some("A"), Some("L3"), "0.00", Some("Outlet"), "Current.Import"),
     Sample(Some("W"), Null, "2000", Some("Outlet"), "Power.Active.Import"),
     Sample(Some("Percent"), Null, "10", Some("EV"), "SoC"),
     Sample(Some("W"), Null, "22687", Some("Outlet"), "Power.Offered"),
     Sample(Some("Wh"), Null, IntToString(meterValue), Some("Outlet"),
            "Energy.Active.Import.Register") >>]

generateDetailedMeterValues(s, meterValue) ==
  IF s.meterValueFormat = "simple"
  THEN [timestamp |-> s.clock,
        sampledValue |-> <<
          Sample(Some("kWh"), Null, DivThousandToString(meterValue), Null,
                 "Energy.Active.Import.Register"),
          Sample(Some("kW"), Null, "26.4", Null, "Power.Active.Import"),
          Sample(Some("Percent"), Null, "66", Null, "SoC"),
          Sample(Some("Celcius"), Null, "45", Null, "Temperature"),
          Sample(Some("A"), Null, "79.89", Null, "Current.Import"),
          Sample(Null, Null, "0", Null, "RPM"),
          Sample(Some("V"), Null, "330.1", Null, "Voltage") >>]
  ELSE [timestamp |-> s.clock,
        sampledValue |-> <<
          Sample(Some("V"), Some("L1"), "236.7", Some("Outlet"), "Voltage"),
          Sample(Some("V"), Some("L2"), "235.6", Some("Outlet"), "Voltage"),
          Sample(Some("V"), Some("L3"), "236.7", Some("Outlet"), "Voltage"),
          Sample(Some("A"), Some("L1"), "0.00", Some("Outlet"), "Current.Import"),
          Sample(Some("A"), Some("L2"), "0.00", Some("Outlet"), "Current.Import"),
          Sample(Some("A"), Some("L3"), "0.00", Some("Outlet"), "Current.Import"),
          Sample(Some("W"), Null, "2000", Some("Outlet"), "Power.Active.Import"),
          Sample(Some("Percent"), Null, "10", Some("EV"), "SoC"),
          Sample(Some("W"), Null, "22687", Some("Outlet"), "Power.Offered"),
          Sample(Some("Wh"), Null, IntToString(meterValue), Some("Outlet"),
                 "Energy.Active.Import.Register") >>]

sendDetailedMeterValue(s, connectorId, meterValueData) ==
  IF hasConnector(s, connectorId)
  THEN LET tx == s.connectors[connectorId].transaction
       IN send(s, [type |-> "MeterValues",
                   transactionId |-> IF tx = Null THEN Null ELSE Some(tx[1].id),
                   connectorId |-> connectorId,
                   meterValue |-> meterValueData])
  ELSE loggerError(s, connectorId)

sendMeterValue(s, connectorId, now) ==
  IF hasConnector(s, connectorId)
  THEN LET s1 == readClock(s, now)
       IN sendDetailedMeterValue(s1, connectorId,
            generateDetailedMeterValues(s1, s1.connectors[connectorId].meterValue))
  ELSE loggerError(s, connectorId)

sendCurrentDetailedMeterValue(s, connectorId, now) ==
  IF hasConnector(s, connectorId)
  THEN LET s1 == readClock(s, now)
       IN sendDetailedMeterValue(s1, connectorId,
            generateDetailedMeterValues(s1, s1.connectors[connectorId].meterValue))
  ELSE loggerError(s, connectorId)

setMeterValueFormat(s, format) == [s EXCEPT !.meterValueFormat = format]

getMeterValueFormat(s) == [s EXCEPT !.op.ret = Some(s.meterValueFormat)]

\* ------------------------------------------------------ auto meter value timer
startAutoMeterValue(s, connectorId, intervalSec, value) ==
  LET s1 == setInterval(s, "meter", connectorId, intervalSec, value)
  IN [s1 EXCEPT !.autoMeterValueIntervals[connectorId] = s.nextHandle]

\* stopAutoMeterValue that clears the auto meter value timers of every connector
stopAutoMeterValue_EveryConnector(s, connectorId) ==
  [s EXCEPT !.timers = {t \in @ : t.kind # "meter"},
            !.autoMeterValueIntervals[connectorId] = 0]

stopAutoMeterValue(s, connectorId) ==
  LET intervalNum == s.autoMeterValueIntervals[connectorId]
  IN IF intervalNum # 0
     THEN [clearInterval(s, intervalNum) EXCEPT !.autoMeterValueIntervals[connectorId] = 0]
     ELSE s

\* a tick that reports the value read before its own increment
autoMeterValueTick_StaleValue(s, t, now) ==
  IF hasConnector(s, t.connectorId)
  THEN LET s1 == setMeterValue(s, t.connectorId,
                               s.connectors[t.connectorId].meterValue + t.value)
           s2 == readClock(s1, now)
       IN sendDetailedMeterValue(s2, t.connectorId,
            generateDetailedMeterValues(s2, s.connectors[t.connectorId].meterValue))
  ELSE s

\* the callback startAutoMeterValue gives to setInterval, for the live timer t
autoMeterValueTick(s, t, now) ==
  IF hasConnector(s, t.connectorId)
  THEN LET s1 == setMeterValue(s, t.connectorId,
                               s.connectors[t.connectorId].meterValue + t.value)
           s2 == readClock(s1, now)
       IN sendDetailedMeterValue(s2, t.connectorId,
            generateDetailedMeterValues(s2, s2.connectors[t.connectorId].meterValue))
  ELSE s

\* ----------------------------------------------------------------- heartbeat
sendHeartbeat(s) == send(s, [type |-> "Heartbeat"])

\* startHeartbeat that does not cancel the timer it replaces
startHeartbeat_NoClear(s, period) ==
  LET s1 == loggerInfo(s, "Setting heartbeat period")
      s3 == setInterval(s1, "heartbeat", 0, period, 0)
  IN [s3 EXCEPT !.heartbeat = s1.nextHandle]

startHeartbeat(s, period) ==
  LET s1 == loggerInfo(s, "Setting heartbeat period")
      s2 == IF s1.heartbeat # 0 THEN clearInterval(s1, s1.heartbeat) ELSE s1
      s3 == setInterval(s2, "heartbeat", 0, period, 0)
  IN [s3 EXCEPT !.heartbeat = s2.nextHandle]

stopHeartbeat(s) ==
  LET s1 == loggerInfo(s, "Stopping heartbeat")
  IN IF s1.heartbeat # 0 THEN clearInterval(s1, s1.heartbeat) ELSE s1

\* -------------------------------------------------------------- transactions
Transaction(tagId, connectorId, now) ==
  [id |-> 0, connectorId |-> connectorId, tagId |-> tagId, meterStart |-> 0,
   meterStop |-> Null, startTime |-> now, stopTime |-> Null, meterSent |-> FALSE]

autoMeterValueOn(s) ==
  /\ s.autoMeterValueSetting # Null
  /\ s.autoMeterValueSetting[1].interval # 0
  /\ s.autoMeterValueSetting[1].value # 0

\* startTransaction that keeps a transaction already attached to the connector
startTransaction_KeepExisting(s, tagId, connectorId, now) ==
  IF hasConnector(s, connectorId)
  THEN LET s0 == readClock(s, now)
           transaction == IF s.connectors[connectorId].transaction # Null
                          THEN s.connectors[connectorId].transaction[1]
                          ELSE Transaction(tagId, connectorId, now)
           s1 == [s0 EXCEPT !.connectors[connectorId].transaction = Some(transaction)]
           s2 == send(s1, [type |-> "StartTransaction", connectorId |-> connectorId,
                           transaction |-> transaction])
           s3 == updateConnectorStatus(s2, connectorId, "Preparing")
       IN IF autoMeterValueOn(s3)
          THEN startAutoMeterValue(s3, connectorId,
                                   s3.autoMeterValueSetting[1].interval,
                                   s3.autoMeterValueSetting[1].value)
          ELSE s3
  ELSE loggerError(s, connectorId)

\* startTransaction that starts the timer outside the check of the connector
startTransaction_TimerAnyway(s, tagId, connectorId, now) ==
  LET s3 == IF hasConnector(s, connectorId)
            THEN LET s0 == readClock(s, now)
                     transaction == Transaction(tagId, connectorId, now)
                     s1 == [s0 EXCEPT
                              !.connectors[connectorId].transaction = Some(transaction)]
                     s2 == send(s1, [type |-> "StartTransaction",
                                     connectorId |-> connectorId,
                                     transaction |-> transaction])
                 IN updateConnectorStatus(s2, connectorId, "Preparing")
            ELSE loggerError(s, connectorId)
  IN IF autoMeterValueOn(s3)
     THEN startAutoMeterValue(s3, connectorId,
                              s3.autoMeterValueSetting[1].interval,
                              s3.autoMeterValueSetting[1].value)
     ELSE s3

\* startTransaction that starts the meter of the connector again from
\* meterStart
startTransaction_ResetsMeter(s, tagId, connectorId, now) ==
  IF hasConnector(s, connectorId)
  THEN LET s0 == readClock(s, now)
           transaction == Transaction(tagId, connectorId, now)
           s1 == [s0 EXCEPT !.connectors[connectorId].transaction = Some(transaction),
                            !.connectors[connectorId].meterValue = transaction.meterStart]
           s2 == send(s1, [type |-> "StartTransaction", connectorId |-> connectorId,
                           transaction |-> transaction])
           s3 == updateConnectorStatus(s2, connectorId, "Preparing")
       IN IF autoMeterValueOn(s3)
          THEN startAutoMeterValue(s3, connectorId,
                                   s3.autoMeterValueSetting[1].interval,
                                   s3.autoMeterValueSetting[1].value)
          ELSE s3
  ELSE loggerError(s, connectorId)

startTransaction(s, tagId, connectorId, now) ==
  IF hasConnector(s, connectorId)
  THEN LET s0 == readClock(s, now)
           transaction == Transaction(tagId, connectorId, now)
           s1 == [s0 EXCEPT !.connectors[connectorId].transaction = Some(transaction)]
           s2 == send(s1, [type |-> "StartTransaction", connectorId |-> connectorId,
                           transaction |-> transaction])
           s3 == updateConnectorStatus(s2, connectorId, "Preparing")
       IN IF autoMeterValueOn(s3)
          THEN startAutoMeterValue(s3, connectorId,
                                   s3.autoMeterValueSetting[1].interval,
                                   s3.autoMeterValueSetting[1].value)
          ELSE s3
  ELSE loggerError(s, connectorId)

\* called with a connector id, or with a Connector of the station (its id)
cleanTransaction(s, connectorId) ==
  LET s1 == IF hasConnector(s, connectorId) /\ s.connectors[connectorId].transaction # Null
            THEN [s EXCEPT !.connectors[connectorId].transaction[1].meterSent = FALSE]
            ELSE s
      s2 == updateConnectorStatus(s1, connectorId, "Finishing")
  IN IF s2.autoMeterValueSetting # Null THEN stopAutoMeterValue(s2, connectorId) ELSE s2

\* stopTransaction that returns after the cleanup, the connector at Finishing
stopTransaction_StaysFinishing(s, connectorId, now) ==
  IF hasConnector(s, connectorId)
  THEN IF s.connectors[connectorId].transaction = Null
       THEN [s EXCEPT !.op.threw = TRUE]
       ELSE LET s0 == readClock(s, now)
                s1 == [s0 EXCEPT
                         !.connectors[connectorId].transaction[1].stopTime = Some(now),
                         !.connectors[connectorId].transaction[1].meterStop =
                            Some(s0.connectors[connectorId].meterValue)]
                s2 == send(s1, [type |-> "StopTransaction", connectorId |-> connectorId,
                                transaction |-> s1.connectors[connectorId].transaction[1]])
            IN cleanTransaction(s2, connectorId)
  ELSE updateConnectorStatus(loggerError(s, connectorId), connectorId, "Available")

\* called with a connector id, or with a Connector of the station (its id);
\* reading a property of the null transaction raises a TypeError: the call
\* ends there, with nothing written
\* stopTransaction that forces the connector to Available before the cleanup
stopTransaction_AvailableFirst(s, connectorId, now) ==
  IF hasConnector(s, connectorId)
  THEN IF s.connectors[connectorId].transaction = Null
       THEN [s EXCEPT !.op.threw = TRUE]
       ELSE LET s0 == readClock(s, now)
                s1 == [s0 EXCEPT
                         !.connectors[connectorId].transaction[1].stopTime = Some(now),
                         !.connectors[connectorId].transaction[1].meterStop =
                            Some(s0.connectors[connectorId].meterValue)]
                s2 == send(s1, [type |-> "StopTransaction", connectorId |-> connectorId,
                                transaction |-> s1.connectors[connectorId].transaction[1]])
                s3 == updateConnectorStatus(s2, connectorId, "Available")
            IN cleanTransaction(s3, connectorId)
  ELSE updateConnectorStatus(loggerError(s, connectorId), connectorId, "Available")

stopTransaction(s, connectorId, now) ==
  IF hasConnector(s, connectorId)
  THEN IF s.connectors[connectorId].transaction = Null
       THEN [s EXCEPT !.op.threw = TRUE]
       ELSE LET s0 == readClock(s, now)
                s1 == [s0 EXCEPT
                         !.connectors[connectorId].transaction[1].stopTime = Some(now),
                         !.connectors[connectorId].transaction[1].meterStop =
                            Some(s0.connectors[connectorId].meterValue)]
                s2 == send(s1, [type |-> "StopTransaction", connectorId |-> connectorId,
                                transaction |-> s1.connectors[connectorId].transaction[1]])
                s3 == cleanTransaction(s2, connectorId)
            IN updateConnectorStatus(s3, connectorId, "Available")
  ELSE updateConnectorStatus(loggerError(s, connectorId), connectorId, "Available")

\* the transactionId setter of Connector: the id of the attached transaction,
\* nothing when there is none
setConnectorTransactionId(s, connectorId, transactionId) ==
  IF s.connectors[connectorId].transaction = Null THEN s
  ELSE [s EXCEPT !.connectors[connectorId].transaction[1].id = transactionId]

\* setTransactionID that also marks the connector as charging
setTransactionID_AlsoCharging(s, connectorId, transactionId) ==
  IF hasConnector(s, connectorId)
  THEN [setConnectorTransactionId(s, connectorId, transactionId) EXCEPT
          !.connectors[connectorId].status = "Charging"]
  ELSE loggerError(s, connectorId)

setTransactionID(s, connectorId, transactionId) ==
  IF hasConnector(s, connectorId)
  THEN setConnectorTransactionId(s, connectorId, transactionId)
  ELSE loggerError(s, connectorId)

\* -------------------------------------------------------------- availability
setAvailabilityChangeCallback(s, connectorId) ==
  [s EXCEPT !.availabilityChangeCallbacks = @ \cup {connectorId}]

\* updateConnectorAvailability that calls every registered subscriber
updateConnectorAvailability_EveryCallback(s, connectorId, newAvailability) ==
  IF ~hasConnector(s, connectorId)
  THEN [loggerError(s, connectorId) EXCEPT !.op.ret = Some(FALSE)]
  ELSE LET s1 == [s EXCEPT !.connectors[connectorId].availability = newAvailability]
           s2 == IF newAvailability = "Inoperative"
                 THEN updateConnectorStatus(s1, connectorId, "Unavailable")
                 ELSE IF newAvailability = "Operative"
                      THEN updateConnectorStatus(s1, connectorId, "Available")
                      ELSE s1
           s3 == [s2 EXCEPT !.cb = @ \o
                    [i \in 1..(IF s2.availabilityChangeCallbacks = {} THEN 0
                               ELSE NumConnectors + 1) |->
                       [kind |-> "availability", connectorId |-> i,
                        value |-> newAvailability]]]
       IN [s3 EXCEPT !.op.ret = Some(TRUE)]

\* updateConnectorAvailability that calls the subscriber before it looks the
\* connector up
updateConnectorAvailability_CallbackFirst(s, connectorId, newAvailability) ==
  LET s0 == IF connectorId \in s.availabilityChangeCallbacks
            THEN [s EXCEPT !.cb = Append(@, [kind |-> "availability",
                                             connectorId |-> connectorId,
                                             value |-> newAvailability])]
            ELSE s
  IN IF ~hasConnector(s0, connectorId)
     THEN [loggerError(s0, connectorId) EXCEPT !.op.ret = Some(FALSE)]
     ELSE LET s1 == [s0 EXCEPT !.connectors[connectorId].availability = newAvailability]
              s2 == IF newAvailability = "Inoperative"
                    THEN updateConnectorStatus(s1, connectorId, "Unavailable")
                    ELSE IF newAvailability = "Operative"
                         THEN updateConnectorStatus(s1, connectorId, "Available")
                         ELSE s1
          IN [s2 EXCEPT !.op.ret = Some(TRUE)]

updateConnectorAvailability(s, connectorId, newAvailability) ==
  IF ~hasConnector(s, connectorId)
  THEN [loggerError(s, connectorId) EXCEPT !.op.ret = Some(FALSE)]
  ELSE LET s1 == [s EXCEPT !.connectors[connectorId].availability = newAvailability]
           s2 == IF newAvailability = "Inoperative"
                 THEN updateConnectorStatus(s1, connectorId, "Unavailable")
                 ELSE IF newAvailability = "Operative"
                      THEN updateConnectorStatus(s1, connectorId, "Available")
                      ELSE s1
           s3 == IF connectorId \in s2.availabilityChangeCallbacks
                 THEN [s2 EXCEPT !.cb = Append(@, [kind |-> "availability",
                                                   connectorId |-> connectorId,
                                                   value |-> newAvailability])]
                 ELSE s2
       IN [s3 EXCEPT !.op.ret = Some(TRUE)]


\* ===================================================================== actions
\* the readings new Date() can give now
Now == clock..MaxClock

\* the state after new ChargePoint(..., connectorCount, ..., setting)
InitOf(connectorCount) ==
  /\ status = "Unavailable"
  /\ error = EmptyString
  /\ connectors = [i \in 1..connectorCount |-> Connector(i)]
  /\ autoMeterValueSetting \in Settings
  /\ autoMeterValueIntervals = [i \in ConnIds |-> 0]
  /\ heartbeat = 0
  /\ meterValueFormat = "detailed"
  /\ availabilityChangeCallbacks = {}
  /\ statusChangeCallback = FALSE
  /\ timers = {}
  /\ nextHandle = 1
  /\ clock = 0
  /\ ws = "closed"
  /\ pendingClose = 0
  /\ op = [name |-> "constructor", args |-> <<connectorCount>>, ret |-> Null,
           threw |-> FALSE, statusWrites |-> <<>>, cleared |-> <<>>]
  /\ out = <<>>
  /\ log = <<>>
  /\ cb = <<>>

Init == InitOf(NumConnectors)

\* ---- connection
Connect ==
  /\ ws = "closed"
  /\ Commit(connect(Cur("connect", <<>>)))

\* the transport reports the socket open: the onOpen callback
OnOpen ==
  /\ ws = "connecting"
  /\ Commit(boot([Cur("open", <<>>) EXCEPT !.ws = "open"]))

\* the transport reports the current socket closed (by the peer or the network)
OnCloseWith(codes, reasons) ==
  /\ ws \in {"connecting", "open"}
  /\ \E code \in codes, reason \in reasons :
       Commit(onClose([Cur("close", <<code, reason>>) EXCEPT !.ws = "closed"],
                      code, reason))

OnClose == OnCloseWith(CloseCodes, CloseReasons)

\* the close notification of a socket that disconnect() closed earlier arrives
OnLateClose ==
  /\ pendingClose > 0
  /\ \E code \in CloseCodes, reason \in CloseReasons :
       Commit(onClose([Cur("close", <<code, reason>>) EXCEPT !.pendingClose = @ - 1],
                      code, reason))

Disconnect ==
  /\ ws = "closed" \/ pendingClose < MaxPendingClose
  /\ Commit(disconnect(Cur("disconnect", <<>>)))

Reset ==
  /\ ws = "closed" \/ pendingClose < MaxPendingClose
  /\ Commit(reset(Cur("reset", <<>>)))

\* ---- transactions
StartTransactionWith(tags) ==
  \E tagId \in tags, connectorId \in ConnIds, now \in Now :
    LET s == Cur("startTransaction", <<tagId, connectorId>>)
    IN /\ (hasConnector(s, connectorId) /\ autoMeterValueOn(s)) => nextHandle <= MaxHandle
       /\ Commit(startTransaction(s, tagId, connectorId, now))

StartTransaction == StartTransactionWith(TagIds)

StopTransaction ==
  \E connectorId \in ConnIds, now \in Now :
    Commit(stopTransaction(Cur("stopTransaction", <<connectorId>>), connectorId, now))

CleanTransaction ==
  \E connectorId \in ConnIds :
    Commit(cleanTransaction(Cur("cleanTransaction", <<connectorId>>), connectorId))

\* ---- heartbeat
StartHeartbeat ==
  /\ nextHandle <= MaxHandle
  /\ \E period \in Periods :
       Commit(startHeartbeat(Cur("startHeartbeat", <<period>>), period))

StopHeartbeat == Commit(stopHeartbeat(Cur("stopHeartbeat", <<>>)))

\* a live heartbeat timer fires
HeartbeatTick ==
  \E t \in timers :
    /\ t.kind = "heartbeat"
    /\ Commit(sendHeartbeat(Cur("heartbeatTick", <<t.handle>>)))

\* ---- meter values
SetMeterValue ==
  \E connectorId \in ConnIds, meterValue \in MeterInputs :
    Commit(setMeterValue(Cur("setMeterValue", <<connectorId, meterValue>>),
                         connectorId, meterValue))

SendMeterValue ==
  \E connectorId \in ConnIds, now \in Now :
    Commit(sendMeterValue(Cur("sendMeterValue", <<connectorId>>), connectorId, now))

SendCurrentDetailedMeterValue ==
  \E connectorId \in ConnIds, now \in Now :
    Commit(sendCurrentDetailedMeterValue(
             Cur("sendCurrentDetailedMeterValue", <<connectorId>>), connectorId, now))

SetMeterValueFormat ==
  \E format \in Formats :
    Commit(setMeterValueFormat(Cur("setMeterValueFormat", <<format>>), format))

GetMeterValueFormat ==
  Commit(getMeterValueFormat(Cur("getMeterValueFormat", <<>>)))

StartAutoMeterValueOn(ids) ==
  /\ nextHandle <= MaxHandle
  /\ \E connectorId \in ids, value \in StepInputs :
       Commit(startAutoMeterValue(Cur("startAutoMeterValue", <<connectorId, 1, value>>),
                                  connectorId, 1, value))

StartAutoMeterValue == StartAutoMeterValueOn(ConnIds)

StopAutoMeterValue ==
  \E connectorId \in ConnIds :
    Commit(stopAutoMeterValue(Cur("stopAutoMeterValue", <<connectorId>>), connectorId))

\* a live auto meter value timer fires
AutoMeterValueTick ==
  \E t \in timers, now \in Now :
    /\ t.kind = "meter"
    /\ t.connectorId \in DOMAIN connectors =>
         connectors[t.connectorId].meterValue + t.value <= MaxMeter
    /\ Commit(autoMeterValueTick(Cur("autoMeterValueTick", <<t.handle, t.connectorId, t.value>>),
                                 t, now))

SetTransactionID ==
  \E connectorId \in ConnIds, transactionId \in TransactionIds :
    Commit(setTransactionID(Cur("setTransactionID", <<connectorId, transactionId>>),
                            connectorId, transactionId))

\* ---- status and availability
UpdateConnectorStatus ==
  \E connectorId \in ConnIds, newStatus \in StatusInputs :
    Commit(updateConnectorStatus(Cur("updateConnectorStatus", <<connectorId, newStatus>>),
                                 connectorId, newStatus))

UpdateAllConnectorsStatus ==
  \E newStatus \in StatusInputs :
    Commit(updateAllConnectorsStatus(Cur("updateAllConnectorsStatus", <<newStatus>>),
                                     newStatus))

UpdateConnectorAvailability ==
  \E connectorId \in ConnIds, newAvailability \in Availabilities :
    Commit(updateConnectorAvailability(
             Cur("updateConnectorAvailability", <<connectorId, newAvailability>>),
             connectorId, newAvailability))

SetAvailabilityChangeCallback ==
  \E connectorId \in ConnIds :
    Commit(setAvailabilityChangeCallback(
             Cur("setAvailabilityChangeCallback", <<connectorId>>), connectorId))

\* a caller changes the map it got from the connectors getter
ChangeReturnedMap ==
  \E k \in ConnIds :
    Commit(changeReturnedMap(Cur("changeReturnedMap", <<k>>), k))

SetStatusChangeCallback ==
  Commit([Cur("statusChangeCallback", <<>>) EXCEPT !.statusChangeCallback = TRUE])

\* ------------------------------------------------------------- specifications
Next ==
  \/ Connect \/ OnOpen \/ OnClose \/ OnLateClose \/ Disconnect \/ Reset
  \/ StartTransaction \/ StopTransaction \/ CleanTransaction
  \/ StartHeartbeat \/ StopHeartbeat \/ HeartbeatTick
  \/ SetMeterValue \/ SendMeterValue \/ SendCurrentDetailedMeterValue
  \/ SetMeterValueFormat \/ GetMeterValueFormat
  \/ StartAutoMeterValue \/ StopAutoMeterValue \/ AutoMeterValueTick
  \/ SetTransactionID
  \/ UpdateConnectorStatus \/ UpdateAllConnectorsStatus
  \/ UpdateConnectorAvailability \/ SetAvailabilityChangeCallback
  \/ SetStatusChangeCallback \/ ChangeReturnedMap

Spec == Init /\ [][Next]_vars

\* the states after construction with a given autoMeterValueSetting
InitWith(setting) == Init /\ autoMeterValueSetting = setting

\* the heartbeat timer, next to auto meter value timers of the same host
NextHeartbeat ==
  \/ StartHeartbeat \/ StopHeartbeat \/ HeartbeatTick
  \/ StartAutoMeterValue \/ StopAutoMeterValue

SpecHeartbeat == InitWith(NoSetting) /\ [][NextHeartbeat]_vars

\* the auto meter value timers, started directly or by a transaction
NextAutoMeter ==
  \/ StartAutoMeterValue \/ StopAutoMeterValue
  \/ StartTransactionWith({"TAG1"}) \/ StopTransaction

SpecAutoMeter == InitWith(Configured) /\ [][NextAutoMeter]_vars

\* the ticks of the auto meter value timers, in either format
NextTelemetry ==
  \/ StartAutoMeterValue \/ StopAutoMeterValue \/ AutoMeterValueTick
  \/ SetMeterValueFormat

SpecTelemetry == InitWith(Configured) /\ [][NextTelemetry]_vars

\* the connection: open, close, disconnect, reset, over varied connector states
NextConnection ==
  \/ Connect \/ OnOpen \/ OnClose \/ OnLateClose \/ Disconnect \/ Reset
  \/ UpdateConnectorStatus \/ UpdateConnectorAvailability

SpecConnection == InitWith(NoSetting) /\ [][NextConnection]_vars

\* the transaction lifecycle
NextTransactions ==
  \/ StartTransaction \/ StopTransaction \/ CleanTransaction
  \/ SetMeterValue

SpecTransactions ==
  (InitWith(NoSetting) \/ InitWith(ZeroInterval)) /\ [][NextTransactions]_vars

\* status and availability of the connectors
NextAvailability ==
  \/ UpdateConnectorAvailability \/ SetAvailabilityChangeCallback
  \/ UpdateConnectorStatus \/ UpdateAllConnectorsStatus
  \/ StartTransaction

SpecAvailability == InitWith(NoSetting) /\ [][NextAvailability]_vars

\* ====================================================================== claims
\* the live timers of one kind
HeartbeatTimers(ts) == {t \in ts : t.kind = "heartbeat"}
MeterTimers(ts, c) == {t \in ts : t.kind = "meter" /\ t.connectorId = c}

\* the messages of one type an operation sent
Sent(msgs, type) == SelectSeq(msgs, LAMBDA m : m.type = type)
ErrorLogs(entries) == SelectSeq(entries, LAMBDA e : e.level = "error")
Calls(calls, kind) == SelectSeq(calls, LAMBDA c : c.kind = kind)

AllConnectors(st) == \A c \in Existing : connectors[c].status = st

\* C1: in every reachable state every connector has at most one live auto
\* meter value timer (a start while one is live cancels the earlier one).
C1_AtMostOneAutoMeterTimer ==
  \A c \in Existing : Cardinality(MeterTimers(timers, c)) <= 1

\* C2: at most one heartbeat timer is live; a startHeartbeat(p) leaves exactly
\* one, of period p; a stopHeartbeat leaves none; no other operation changes the
\* live heartbeat timers; and a heartbeat is sent only by a tick of a live
\* heartbeat timer, one per tick, so none is sent between a stopHeartbeat and
\* the next startHeartbeat.
C2_OneHeartbeatTimer ==
  [][ /\ Cardinality(HeartbeatTimers(timers')) <= 1
      /\ op'.name = "startHeartbeat" =>
           /\ Cardinality(HeartbeatTimers(timers')) = 1
           /\ \A t \in HeartbeatTimers(timers') :
                t.interval = op'.args[1] /\ t.handle = heartbeat'
      /\ op'.name = "stopHeartbeat" => HeartbeatTimers(timers') = {}
      /\ op'.name \notin {"startHeartbeat", "stopHeartbeat"} =>
           HeartbeatTimers(timers') = HeartbeatTimers(timers)
      /\ IF op'.name = "heartbeatTick"
         THEN HeartbeatTimers(timers) # {} /\ out' = <<[type |-> "Heartbeat"]>>
         ELSE Sent(out', "Heartbeat") = <<>> ]_vars

\* C2 witness: a second startHeartbeat (both handles handed out so far went to
\* heartbeat timers) has left one live heartbeat timer, of the later period.
C2_Witness ==
  /\ op.name = "startHeartbeat" /\ op.args = <<60>>
  /\ heartbeat = 2 /\ nextHandle = 3
  /\ timers = {[handle |-> 2, kind |-> "heartbeat", connectorId |-> 0,
                interval |-> 60, value |-> 0]}

\* C3: when the open callback has run boot(), the station and every connector
\* are Available and the error is the empty string.
C3_BootAvailable ==
  op.name = "open" =>
    /\ status = "Available"
    /\ AllConnectors("Available")
    /\ error = EmptyString

\* C3 witness: boot ran on the socket of a reset whose earlier socket has not
\* reported its close yet, over a connector made Inoperative before.
C3_Witness ==
  /\ op.name = "open"
  /\ pendingClose > 0
  /\ connectors[1].availability = "Inoperative"
  /\ AllConnectors("Available")

\* C4: after a close notification with a code c other than 1005 and reason r the
\* station and every connector are Unavailable, the error is the message
\* holding c and r, and the error subscriber was called once, with it.
C4_CloseSurfacesError ==
  (op.name = "close" /\ op.args[1] # SentinelCode) =>
    /\ status = "Unavailable"
    /\ AllConnectors("Unavailable")
    /\ error.code = Some(op.args[1])
    /\ error.reason = Some(op.args[2])
    /\ Calls(cb, "error") = <<[kind |-> "error", value |-> error]>>

C4_Witness ==
  /\ op.name = "close" /\ op.args = <<1006, "timeout">>
  /\ error = closeMessage(1006, "timeout")
  /\ AllConnectors("Unavailable")

\* C5: a close notification with code 1005 leaves the station and every
\* connector Unavailable, the error as it was before, and calls no error
\* subscriber.
C5_SentinelKeepsError ==
  [][ (op'.name = "close" /\ op'.args[1] = SentinelCode) =>
        /\ status' = "Unavailable"
        /\ \A c \in Existing : connectors'[c].status = "Unavailable"
        /\ error' = error
        /\ Calls(cb', "error") = <<>> ]_vars

\* C5 witness: a sentinel close over an error surfaced earlier, which it kept.
C5_Witness ==
  /\ op.name = "close" /\ op.args[1] = SentinelCode
  /\ error = closeMessage(1006, "timeout")
  /\ AllConnectors("Unavailable")

\* the energy register reading of a meter value message
EnergyReading(msg) ==
  LET samples == msg.meterValue.sampledValue
  IN samples[CHOOSE i \in DOMAIN samples :
               samples[i].measurand = "Energy.Active.Import.Register"]

\* the reading in Wh: kWh readings are thousandths
ReadingWh(v) ==
  IF v.unit = Some("kWh") THEN v.value.whole * 1000 + v.value.milli
  ELSE v.value.whole

\* C6: startTransaction(t, c) on an existing connector c attaches the new
\* transaction (id 0, connectorId c, tagId t, meterStart 0, meterStop null,
\* stopTime null, meterSent false) in place of any earlier one, forwards it
\* once through MessageChannel.startTransaction and leaves c at Preparing.
C6_StartTransaction ==
  (op.name = "startTransaction" /\ op.args[2] \in Existing) =>
    LET c == op.args[2]
        tx == connectors[c].transaction
    IN /\ tx # Null
       /\ tx[1].id = 0
       /\ tx[1].connectorId = c
       /\ tx[1].tagId = op.args[1]
       /\ tx[1].meterStart = 0
       /\ tx[1].meterStop = Null
       /\ tx[1].stopTime = Null
       /\ tx[1].meterSent = FALSE
       /\ Sent(out, "StartTransaction") =
            <<[type |-> "StartTransaction", connectorId |-> c, transaction |-> tx[1]]>>
       /\ connectors[c].status = "Preparing"

\* C6 witness: startTransaction("TAG2", 1) on a connector whose meterValue is 5
\* and whose setting has a zero interval: meterStart is 0 all the same.
C6_Witness ==
  /\ op.name = "startTransaction" /\ op.args = <<"TAG2", 1>>
  /\ autoMeterValueSetting = ZeroInterval
  /\ connectors[1].meterValue = 5
  /\ connectors[1].transaction # Null
  /\ connectors[1].transaction[1].tagId = "TAG2"
  /\ connectors[1].transaction[1].startTime = MaxClock
  /\ connectors[1].status = "Preparing"

\* C7: startTransaction(t, k) with k no connector changes no connector, starts
\* no timer, sends nothing, raises nothing and logs exactly one error.
C7_StartTransactionMissing ==
  [][ (op'.name = "startTransaction" /\ op'.args[2] \notin Existing) =>
        /\ connectors' = connectors
        /\ timers' = timers
        /\ autoMeterValueIntervals' = autoMeterValueIntervals
        /\ nextHandle' = nextHandle
        /\ out' = <<>>
        /\ ~op'.threw
        /\ Len(ErrorLogs(log')) = 1 ]_vars

C7_Witness ==
  /\ op.name = "startTransaction" /\ op.args = <<"TAG1", NumConnectors + 1>>
  /\ autoMeterValueSetting = Configured
  /\ Len(ErrorLogs(log)) = 1
  /\ connectors[1].transaction # Null

\* C8: stopTransaction(c) on a connector with a transaction and meterValue m
\* leaves the transaction with meterStop m and a stopTime, forwards it once
\* through MessageChannel.stopTransaction and returns with c at Available.
C8_StopTransaction ==
  [][ (/\ op'.name = "stopTransaction"
       /\ op'.args[1] \in Existing
       /\ connectors[op'.args[1]].transaction # Null) =>
        LET c == op'.args[1]
            tx == connectors'[c].transaction
        IN /\ tx # Null
           /\ tx[1].meterStop = Some(connectors[c].meterValue)
           /\ tx[1].stopTime # Null
           /\ Sent(out', "StopTransaction") =
                <<[type |-> "StopTransaction", connectorId |-> c, transaction |-> tx[1]]>>
           /\ connectors'[c].status = "Available"
           /\ ~op'.threw ]_vars

C8_Witness ==
  /\ op.name = "stopTransaction" /\ op.args = <<1>> /\ ~op.threw
  /\ connectors[1].meterValue = 5
  /\ connectors[1].transaction # Null
  /\ connectors[1].transaction[1].meterStop = Some(5)
  /\ connectors[1].transaction[1].stopTime # Null
  /\ connectors[1].status = "Available"

\* C9 as stated: every tick of a timer of step v on connector c raises c's
\* meterValue by v and sends one meter value message for c whose energy
\* register reading is c's meterValue after the increment.
C9_TickReadingIsMeterValue ==
  [][ (op'.name = "autoMeterValueTick" /\ op'.args[2] \in Existing) =>
        LET c == op'.args[2]
        IN /\ connectors'[c].meterValue = connectors[c].meterValue + op'.args[3]
           /\ Len(out') = 1
           /\ out'[1].type = "MeterValues"
           /\ out'[1].connectorId = c
           /\ EnergyReading(out'[1]).value = IntToString(connectors'[c].meterValue) ]_vars

\* C9 amended: every tick of a timer of step v on connector c raises c's
\* meterValue by v (and no other step of these runs writes it, so k ticks make
\* m0 + k*v) and sends one meter value message for c whose energy register
\* reading is c's meterValue after the increment in Wh in the detailed format,
\* and that value divided by 1000, in kWh, in the simple format.
C9_TickAddsStepAndReports ==
  [][ /\ (op'.name = "autoMeterValueTick" /\ op'.args[2] \in Existing) =>
           LET c == op'.args[2]
               r == EnergyReading(out'[1])
           IN /\ connectors'[c].meterValue = connectors[c].meterValue + op'.args[3]
              /\ \A d \in Existing \ {c} :
                   connectors'[d].meterValue = connectors[d].meterValue
              /\ Len(out') = 1
              /\ out'[1].type = "MeterValues"
              /\ out'[1].connectorId = c
              /\ IF meterValueFormat = "simple"
                 THEN /\ r.unit = Some("kWh")
                      /\ r.value = DivThousandToString(connectors'[c].meterValue)
                 ELSE /\ r.unit = Some("Wh")
                      /\ r.value = IntToString(connectors'[c].meterValue)
              /\ ReadingWh(r) = connectors'[c].meterValue
      /\ op'.name # "autoMeterValueTick" =>
           \A c \in Existing : connectors'[c].meterValue = connectors[c].meterValue ]_vars

\* C9 witness: the second tick of a timer of step 10 started at meterValue 0,
\* reporting 20 Wh in the detailed format.
C9_Witness ==
  /\ op.name = "autoMeterValueTick" /\ op.args = <<1, 1, 10>>
  /\ nextHandle = 2
  /\ connectors[1].meterValue = 20
  /\ Len(out) = 1
  /\ EnergyReading(out[1]).value = IntToString(20)

\* C10: updateConnectorAvailability(c, a) on an existing connector records a,
\* leaves c Unavailable for Inoperative and Available for Operative, calls
\* the availability subscriber of c (and no other) once with a, and returns
\* success.
C10_UpdateAvailability ==
  (op.name = "updateConnectorAvailability" /\ op.args[1] \in Existing) =>
    LET c == op.args[1]
        a == op.args[2]
    IN /\ connectors[c].availability = a
       /\ a = "Inoperative" => connectors[c].status = "Unavailable"
       /\ a = "Operative" => connectors[c].status = "Available"
       /\ cb = IF c \in availabilityChangeCallbacks
               THEN <<[kind |-> "availability", connectorId |-> c, value |-> a]>>
               ELSE <<>>
       /\ op.ret = Some(TRUE)

\* C10 witness: connector 1, Preparing, is made Inoperative; both connectors
\* have a subscriber and only connector 1's was called.
C10_Witness ==
  /\ op.name = "updateConnectorAvailability" /\ op.args = <<1, "Inoperative">>
  /\ {1, 2} \subseteq availabilityChangeCallbacks
  /\ connectors[1].transaction # Null
  /\ connectors[1].status = "Unavailable"
  /\ cb = <<[kind |-> "availability", connectorId |-> 1, value |-> "Inoperative"]>>

\* C11: updateConnectorAvailability(k, a) with k no connector returns failure,
\* calls no availability subscriber (not even one registered under k), sends
\* no status notification and changes no connector's availability or status.
C11_UpdateAvailabilityMissing ==
  [][ (op'.name = "updateConnectorAvailability" /\ op'.args[1] \notin Existing) =>
        /\ op'.ret = Some(FALSE)
        /\ cb' = <<>>
        /\ out' = <<>>
        /\ connectors' = connectors
        /\ ~op'.threw ]_vars

\* C11 witness: the failed call named an id under which a subscriber is
\* registered, with connector 1 Inoperative already.
C11_Witness ==
  /\ op.name = "updateConnectorAvailability"
  /\ op.args = <<NumConnectors + 1, "Operative">>
  /\ (NumConnectors + 1) \in availabilityChangeCallbacks
  /\ op.ret = Some(FALSE)
  /\ connectors[1].availability = "Inoperative"

\* the state after construction with connectorCount connectors and the setting
InitOfWith(connectorCount, setting) ==
  InitOf(connectorCount) /\ autoMeterValueSetting = setting

\* the set of connectors, for every connectorCount from 1 on
NextConnectors ==
  \/ ChangeReturnedMap
  \/ StartTransactionWith({"TAG1"}) \/ StopTransaction
  \/ UpdateConnectorAvailability \/ UpdateAllConnectorsStatus
  \/ Connect \/ OnOpen \/ Disconnect

SpecConnectors ==
  /\ \E connectorCount \in 1..NumConnectors : InitOfWith(connectorCount, NoSetting)
  /\ [][NextConnectors]_vars

\* C12: after construction with connectorCount N the station and all N
\* connectors are Unavailable with meterValue 0 and no transaction,
\* connectorNumber is N and getConnector(k) is defined exactly for k in 1..N;
\* and no operation, nor a change of the map the connectors getter returned,
\* changes connectorNumber or the ids getConnector is defined for.
C12_ConnectorSetFixed ==
  /\ op.name = "constructor" =>
       /\ connectorNumber(Cur("", <<>>)) = op.args[1]
       /\ \A k \in ConnIds : hasConnector(Cur("", <<>>), k) <=> k \in 1..op.args[1]
       /\ status = "Unavailable"
       /\ \A k \in DOMAIN connectors :
            /\ connectors[k].status = "Unavailable"
            /\ connectors[k].meterValue = 0
            /\ connectors[k].transaction = Null
  /\ [][ /\ connectorNumber(Cur("", <<>>))' = connectorNumber(Cur("", <<>>))
         /\ \A k \in ConnIds :
              hasConnector(Cur("", <<>>), k)' <=> hasConnector(Cur("", <<>>), k) ]_vars

\* C12 witness: a caller deleted connector 1 from the map the getter returned,
\* on a station of one connector with a transaction on it; the station still
\* has it.
C12_Witness ==
  /\ op.name = "changeReturnedMap" /\ op.args = <<1>>
  /\ DOMAIN connectors = {1}
  /\ connectors[1].transaction # Null

\* C13: every public command completes without raising an exception, for every
\* connector id and in every reachable state, stopTransaction on a connector
\* of the station that has no transaction included.
C13_CommandsTotal == ~op.threw

\* the format of the snapshots: set, read, and used by ticks and sends
NextFormat ==
  \/ SetMeterValueFormat \/ GetMeterValueFormat
  \/ SendMeterValue \/ SendCurrentDetailedMeterValue
  \/ StartAutoMeterValue \/ AutoMeterValueTick

SpecFormat == InitWith(Configured) /\ [][NextFormat]_vars

\* the format a snapshot was built in, told by its samples: the simple one has
\* 7 samples with the energy in kWh, the detailed one 10 with the energy in Wh
SnapshotFormat(msg) ==
  IF Len(msg.meterValue.sampledValue) = 7 /\ EnergyReading(msg).unit = Some("kWh")
  THEN "simple"
  ELSE IF Len(msg.meterValue.sampledValue) = 10 /\ EnergyReading(msg).unit = Some("Wh")
       THEN "detailed"
       ELSE "other"

\* C14: the format is 'detailed' after construction; only setMeterValueFormat
\* changes it, to its argument; getMeterValueFormat returns it; and every
\* snapshot sent by a tick, sendMeterValue or sendCurrentDetailedMeterValue is
\* built in the format in force when the operation began, with no restart of
\* a timer in between.
C14_FormatFollowsLastSet ==
  /\ op.name = "constructor" => meterValueFormat = "detailed"
  /\ [][ /\ op'.name = "setMeterValueFormat" => meterValueFormat' = op'.args[1]
         /\ op'.name # "setMeterValueFormat" => meterValueFormat' = meterValueFormat
         /\ op'.name = "getMeterValueFormat" => op'.ret = Some(meterValueFormat)
         /\ op'.name \in {"autoMeterValueTick", "sendMeterValue",
                          "sendCurrentDetailedMeterValue"} =>
              \A i \in DOMAIN out' :
                out'[i].type = "MeterValues" =>
                  SnapshotFormat(out'[i]) = meterValueFormat ]_vars

\* C14 witness: the only timer ever started ticks after the format was set to
\* simple, and its snapshot is a simple one.
C14_Witness ==
  /\ op.name = "autoMeterValueTick"
  /\ nextHandle = 2
  /\ meterValueFormat = "simple"
  /\ Len(out) = 1 /\ SnapshotFormat(out[1]) = "simple"

\* the station status and its subscriber
NextStatus ==
  \/ SetStatusChangeCallback
  \/ Connect \/ OnOpen \/ OnClose \/ OnLateClose \/ Disconnect \/ Reset

SpecStatus == InitWith(NoSetting) /\ [][NextStatus]_vars

\* C15: whenever boot, the close handler or disconnect changes the station
\* status, it calls the registered station status subscriber, during the
\* operation, and the last status it delivers is the status the station has
\* when the operation returns.
C15_StatusWriteNotifies ==
  [][ (/\ statusChangeCallback
       /\ op'.name \in {"open", "close", "disconnect"}
       /\ status' # status) =>
        /\ Len(Calls(cb', "status")) >= 1
        /\ Calls(cb', "status")[Len(Calls(cb', "status"))].value = status' ]_vars

\* transactions, their server-assigned ids, and the meter values sent for them
NextTagging ==
  \/ StartTransactionWith({"TAG1"}) \/ StopTransaction \/ SetTransactionID
  \/ SendMeterValue \/ SendCurrentDetailedMeterValue
  \/ StartAutoMeterValueOn({1}) \/ AutoMeterValueTick

SpecTagging == InitWith(NoSetting) /\ [][NextTagging]_vars

\* connector c has a transaction that was started and not stopped
ActiveTransaction(c) ==
  /\ connectors[c].transaction # Null
  /\ connectors[c].transaction[1].stopTime = Null

\* C16: every meter value message a tick or an on-demand send sends for
\* connector c carries the id of c's transaction when c has an active one, and
\* no transaction id when c has none (none started, or the last one stopped).
C16_MeterValueTaggedIffActive ==
  op.name \in {"autoMeterValueTick", "sendMeterValue", "sendCurrentDetailedMeterValue"} =>
    \A i \in DOMAIN out :
      out[i].type = "MeterValues" =>
        out[i].transactionId =
          IF ActiveTransaction(out[i].connectorId)
          THEN Some(connectors[out[i].connectorId].transaction[1].id)
          ELSE Null

\* the state of the station other than its connectors is as it was
RestUnchanged ==
  /\ status' = status /\ error' = error
  /\ autoMeterValueSetting' = autoMeterValueSetting
  /\ autoMeterValueIntervals' = autoMeterValueIntervals
  /\ heartbeat' = heartbeat /\ meterValueFormat' = meterValueFormat
  /\ availabilityChangeCallbacks' = availabilityChangeCallbacks
  /\ statusChangeCallback' = statusChangeCallback
  /\ timers' = timers /\ nextHandle' = nextHandle
  /\ ws' = ws /\ pendingClose' = pendingClose

\* C17: setTransactionID(c, id) on a connector c of the station raises nothing,
\* sends and logs nothing and calls no subscriber; with no transaction on c it
\* changes no state, and with one it sets the id of that transaction to id and
\* changes nothing else.
C17_SetTransactionID ==
  [][ (op'.name = "setTransactionID" /\ op'.args[1] \in Existing) =>
        LET c == op'.args[1] IN
        /\ ~op'.threw
        /\ out' = <<>> /\ log' = <<>> /\ cb' = <<>>
        /\ RestUnchanged
        /\ connectors' =
             IF connectors[c].transaction = Null THEN connectors
             ELSE [connectors EXCEPT ![c].transaction[1].id = op'.args[2]] ]_vars

\* C17 witness: the id of the running transaction of connector 1, which has a
\* live timer and a meter value, was set to 8; connector 2 has none.
C17_Witness ==
  /\ op.name = "setTransactionID" /\ op.args = <<1, 8>>
  /\ connectors[1].transaction # Null
  /\ connectors[1].transaction[1].id = 8
  /\ connectors[1].meterValue = 10
  /\ MeterTimers(timers, 1) # {}
  /\ connectors[2].transaction = Null

\* C18: updateAllConnectorsStatus(s) writes the status of every connector
\* exactly once and sends exactly one status notification (id, s) per
\* connector, in one pass over the connectors, and on return every connector
\* has status s.
C18_OneWritePerConnector ==
  op.name = "updateAllConnectorsStatus" =>
    /\ op.statusWrites = [i \in 1..NumConnectors |-> i]
    /\ out = [i \in 1..NumConnectors |->
                [type |-> "StatusNotification", connectorId |-> i, status |-> op.args[1]]]
    /\ AllConnectors(op.args[1])

\* the commands that take a connector id, with timers registered under an id
\* that is no connector
NextMissing ==
  \/ StartAutoMeterValueOn({NumConnectors + 1})
  \/ StopTransaction \/ CleanTransaction \/ UpdateConnectorStatus
  \/ SetMeterValue \/ SendMeterValue \/ SendCurrentDetailedMeterValue
  \/ SetTransactionID

SpecMissing == InitWith(ZeroInterval) /\ [][NextMissing]_vars

\* C19: stopTransaction, cleanTransaction, updateConnectorStatus, setMeterValue,
\* sendMeterValue, sendCurrentDetailedMeterValue and setTransactionID, called
\* with an id that is no connector, log an error and change nothing else: the
\* connectors, the station status, the error and the live timers are as
\* before, and no message is sent.
C19_MissingConnectorNoOp ==
  [][ (/\ op'.name \in {"stopTransaction", "cleanTransaction", "updateConnectorStatus",
                        "setMeterValue", "sendMeterValue",
                        "sendCurrentDetailedMeterValue", "setTransactionID"}
       /\ op'.args[1] \notin Existing) =>
        /\ Len(ErrorLogs(log')) >= 1
        /\ connectors' = connectors
        /\ status' = status
        /\ error' = error
        /\ timers' = timers
        /\ out' = <<>> ]_vars

\* the meter of a station of one connector: timers with a positive step, their
\* ticks, transactions, the connection, and availability updates; the status
\* of the connector is updated by the availability updates, the transactions,
\* boot and the close handler
NextMeter ==
  \/ StartAutoMeterValueOn({1}) \/ AutoMeterValueTick
  \/ StartTransactionWith({"TAG1"}) \/ StopTransaction \/ CleanTransaction
  \/ Connect \/ OnOpen \/ OnCloseWith({1006}, {""}) \/ Disconnect \/ Reset
  \/ UpdateConnectorAvailability

SpecMeter == InitOfWith(1, NoSetting) /\ [][NextMeter]_vars

\* C20: the meterValue of every connector is a non-negative integer, and with
\* positive steps no tick, startTransaction, stopTransaction, cleanTransaction,
\* boot, connection close, disconnect, reset, status update or availability
\* update lowers it.
C20_MeterValueNeverDecreases ==
  /\ \A c \in DOMAIN connectors : connectors[c].meterValue \in Nat
  /\ [][ \A c \in DOMAIN connectors :
           /\ connectors'[c].meterValue \in Nat
           /\ connectors'[c].meterValue >= connectors[c].meterValue ]_vars

\* C20 witness: a transaction was started on connector 1 after two ticks, the
\* meter still at their sum.
C20_Witness ==
  /\ op.name = "startTransaction" /\ op.args[2] = 1
  /\ connectors[1].meterValue = 20
  /\ connectors[1].transaction # Null
  /\ connectors[1].transaction[1].meterStart = 0

\* transactions of a station with auto meter values configured: the timers are
\* started by startTransaction only
NextAutoTransactions ==
  StartTransactionWith({"TAG1"}) \/ StopTransaction \/ AutoMeterValueTick

SpecAutoTransactions == InitWith(Configured) /\ [][NextAutoTransactions]_vars

\* C21: with auto meter values configured and timers started by
\* startTransaction only, a connector has a live auto meter value timer only
\* while it has a transaction that was started and not stopped; after
\* stopTransaction(c) no timer of c is left to tick.
C21_TimerOnlyWhileTransaction ==
  \A c \in Existing : MeterTimers(timers, c) # {} => ActiveTransaction(c)

\* C22: while the connection opened last (by connect or by reset) is open, its
\* open callback having run, the station and all connectors are Available and
\* the error is empty, whenever the close notification of the connection that
\* reset or disconnect closed before is delivered.
C22_OpenConnectionAvailable ==
  ws = "open" =>
    /\ status = "Available"
    /\ AllConnectors("Available")
    /\ error = EmptyString

\* stops of transactions, with and without auto meter values configured, and
\* timers started by startTransaction or by startAutoMeterValue
NextStopOrder ==
  StartAutoMeterValueOn({1}) \/ StartTransactionWith({"TAG1"}) \/ StopTransaction

SpecStopOrder ==
  (InitWith(NoSetting) \/ InitWith(Configured)) /\ [][NextStopOrder]_vars

\* the messages of a stop of the transaction of c that succeeds: the stop with
\* the stamped transaction, the Finishing notification, the Available one
StopMessages(c, tx) ==
  << [type |-> "StopTransaction", connectorId |-> c, transaction |-> tx],
     [type |-> "StatusNotification", connectorId |-> c, status |-> "Finishing"],
     [type |-> "StatusNotification", connectorId |-> c, status |-> "Available"] >>

\* C23 as stated: a stopTransaction(c) that succeeds sends the stop, the
\* Finishing notification and the Available notification, once each and in
\* that order, and c has no live auto meter value timer when it returns.
C23_StopOrderTimerCancelled ==
  [][ (/\ op'.name = "stopTransaction" /\ op'.args[1] \in Existing
       /\ connectors[op'.args[1]].transaction # Null) =>
        LET c == op'.args[1]
            tx == connectors'[c].transaction[1]
        IN /\ tx.stopTime # Null /\ tx.meterStop = Some(connectors[c].meterValue)
           /\ out' = StopMessages(c, tx)
           /\ MeterTimers(timers', c) = {} ]_vars

\* C23, amended: a stopTransaction(c) that succeeds sends the stop (with the
\* stamped stopTime and meterStop), the Finishing notification and the
\* Available notification, once each and in that order; if auto meter values
\* are configured and a handle is stored for c, that one handle is cleared after
\* the Finishing notification and before the Available one; nothing else is
\* cleared.
C23_StopOrder ==
  [][ (/\ op'.name = "stopTransaction" /\ op'.args[1] \in Existing
       /\ connectors[op'.args[1]].transaction # Null) =>
        LET c == op'.args[1]
            tx == connectors'[c].transaction[1]
        IN /\ tx.stopTime # Null /\ tx.meterStop = Some(connectors[c].meterValue)
           /\ out' = StopMessages(c, tx)
           /\ op'.cleared =
                IF autoMeterValueSetting # Null /\ autoMeterValueIntervals[c] # 0
                THEN << [handle |-> autoMeterValueIntervals[c], sent |-> 2] >>
                ELSE << >>
           /\ timers' = {t \in timers :
                           \A i \in DOMAIN op'.cleared : t.handle # op'.cleared[i].handle} ]_vars

\* C23 witness: the transaction of connector 1, started once with auto meter
\* values configured, was stopped: its timer was cleared after two messages.
C23_Witness ==
  /\ op.name = "stopTransaction" /\ op.args = <<1>> /\ ~op.threw
  /\ Len(out) = 3
  /\ op.cleared = << [handle |-> 1, sent |-> 2] >>
  /\ timers = {}

\* C24: stopTransaction(c) on a connector whose transaction is stopped already
\* sends no StopTransaction message and leaves the stopTime and meterStop of
\* that transaction as they are.
C24_NoSecondStop ==
  [][ (/\ op'.name = "stopTransaction" /\ op'.args[1] \in Existing
       /\ connectors[op'.args[1]].transaction # Null
       /\ connectors[op'.args[1]].transaction[1].stopTime # Null) =>
        LET c == op'.args[1]
        IN /\ Sent(out', "StopTransaction") = <<>>
           /\ connectors'[c].transaction # Null
           /\ connectors'[c].transaction[1].stopTime = connectors[c].transaction[1].stopTime
           /\ connectors'[c].transaction[1].meterStop = connectors[c].transaction[1].meterStop
    ]_vars

\* the commands addressed to one connector, on a station of two with a
\* heartbeat: transactions, status, availability, transaction id and sends go
\* to connector 1; timers, their ticks and the meter writes to connector 2
NextFrame ==
  \/ StartTransactionWith({"TAG1"}) /\ op'.args[2] = 1
  \/ StopTransaction /\ op'.args[1] = 1
  \/ CleanTransaction /\ op'.args[1] = 1
  \/ UpdateConnectorAvailability /\ op'.args[1] = 1
  \/ SendMeterValue /\ op'.args[1] = 1
  \/ UpdateConnectorStatus /\ op'.args = <<1, "Charging">>
  \/ SetTransactionID /\ op'.args = <<1, 7>>
  \/ SetMeterValue /\ op'.args = <<2, 0>>
  \/ StartAutoMeterValueOn({2})
  \/ StopAutoMeterValue /\ op'.args[1] = 2
  \/ AutoMeterValueTick
  \/ StartHeartbeat /\ op'.args = <<30>>

SpecFrame == InitWith(ZeroInterval) /\ [][NextFrame]_vars

\* the commands that are addressed to one connector, and the connector the
\* last operation was addressed to
ConnectorCommands ==
  {"startTransaction", "stopTransaction", "cleanTransaction", "updateConnectorStatus",
   "updateConnectorAvailability", "setMeterValue", "setTransactionID", "sendMeterValue",
   "startAutoMeterValue", "stopAutoMeterValue", "autoMeterValueTick"}

Addressed ==
  IF op.name \in {"startTransaction", "autoMeterValueTick"} THEN op.args[2]
  ELSE op.args[1]

\* C25: a command addressed to connector i leaves every other connector as it
\* was (status, availability, meterValue, transaction, auto meter value
\* timers), and leaves the station status and the heartbeat timer.
C25_OtherConnectorsUntouched ==
  [][ op'.name \in ConnectorCommands =>
        /\ \A j \in Existing \ {Addressed'} :
             /\ connectors'[j] = connectors[j]
             /\ MeterTimers(timers', j) = MeterTimers(timers, j)
             /\ autoMeterValueIntervals'[j] = autoMeterValueIntervals[j]
        /\ status' = status
        /\ HeartbeatTimers(timers') = HeartbeatTimers(timers)
        /\ heartbeat' = heartbeat ]_vars

\* C25 witness: the transaction of connector 1 was stopped while connector 2
\* has a live timer and a meter value, and the heartbeat timer is live.
C25_Witness ==
  /\ op.name = "stopTransaction" /\ op.args = <<1>> /\ ~op.threw
  /\ MeterTimers(timers, 2) # {}
  /\ connectors[2].meterValue = 10
  /\ HeartbeatTimers(timers) # {}
  /\ connectors[1].status = "Available"

\* the operations that write the status of connectors
NextConnectorStatus ==
  \/ Connect \/ OnOpen \/ OnCloseWith({1006}, {""})
  \/ StartTransactionWith({"TAG1"}) \/ StopTransaction \/ CleanTransaction
  \/ UpdateConnectorStatus \/ UpdateConnectorAvailability \/ UpdateAllConnectorsStatus

SpecConnectorStatus == InitWith(NoSetting) /\ [][NextConnectorStatus]_vars

\* the status notifications an operation sent for connector c, in order
StatusNotifications(msgs, c) ==
  SelectSeq(msgs, LAMBDA m : m.type = "StatusNotification" /\ m.connectorId = c)

\* C26: an operation that changes the status of connector c sends a status
\* notification for c, and the last status notification an operation sends
\* for c carries the status c has when the operation ends; so the status
\* notification sent last for c, if any, always carries c's status.
C26_LastNotificationIsStatus ==
  [][ \A c \in Existing :
        LET sent == StatusNotifications(out', c)
        IN /\ connectors'[c].status # connectors[c].status => Len(sent) >= 1
           /\ Len(sent) >= 1 => sent[Len(sent)].status = connectors'[c].status ]_vars

\* C26 witness: the close handler ran after a transaction was stopped on
\* connector 1: its notification for connector 1 carries Unavailable.
C26_Witness ==
  /\ op.name = "close"
  /\ connectors[1].transaction # Null
  /\ connectors[1].transaction[1].stopTime # Null
  /\ Len(StatusNotifications(out, 1)) = 1
  /\ StatusNotifications(out, 1)[1].status = "Unavailable"
  /\ connectors[1].status = "Unavailable"

\* C27: in every reachable state a connector whose availability is Inoperative
\* has status Unavailable.
C27_InoperativeIsUnavailable ==
  \A c \in Existing :
    connectors[c].availability = "Inoperative" => connectors[c].status = "Unavailable"

\* C28: in every reachable state in which the station is Unavailable, every
\* connector is Unavailable.
C28_UnavailableStationConnectors ==
  status = "Unavailable" => AllConnectors("Unavailable")

\* the connection, the timers and their ticks, sends, and the commands called
\* with an id that is no connector
NextError ==
  \/ Connect \/ OnOpen \/ OnClose \/ OnLateClose \/ Disconnect \/ Reset
  \/ StartHeartbeat /\ op'.args = <<30>>
  \/ HeartbeatTick
  \/ StartAutoMeterValueOn({1})
  \/ AutoMeterValueTick
  \/ SendMeterValue /\ op'.args[1] \in {1, NumConnectors + 1}
  \/ StartTransactionWith({"TAG1"}) /\ op'.args[2] = NumConnectors + 1
  \/ StopTransaction /\ op'.args[1] = NumConnectors + 1
  \/ CleanTransaction /\ op'.args[1] = NumConnectors + 1
  \/ UpdateConnectorStatus /\ op'.args = <<NumConnectors + 1, "Charging">>
  \/ UpdateConnectorAvailability /\ op'.args = <<NumConnectors + 1, "Operative">>
  \/ SetMeterValue /\ op'.args = <<NumConnectors + 1, 5>>
  \/ SetTransactionID /\ op'.args = <<NumConnectors + 1, 7>>

SpecError == InitWith(NoSetting) /\ [][NextError]_vars

\* C29: the error is written, and the error subscriber called, only by boot
\* (the empty error) and by the close handler for a code other than the
\* sentinel; every other operation leaves the error and calls no error
\* subscriber.
C29_ErrorWrittenByBootAndClose ==
  [][ /\ op'.name = "open" =>
           error' = EmptyString /\ Calls(cb', "error") # <<>>
      /\ (op'.name = "close" /\ op'.args[1] # SentinelCode) =>
           error' = closeMessage(op'.args[1], op'.args[2]) /\ Calls(cb', "error") # <<>>
      /\ ~(op'.name = "open" \/ (op'.name = "close" /\ op'.args[1] # SentinelCode)) =>
           error' = error /\ Calls(cb', "error") = <<>> ]_vars

\* C29 witness: stopTransaction with an id that is no connector, while the
\* error of an earlier close is set: the error is still there.
C29_Witness ==
  /\ op.name = "stopTransaction" /\ op.args = <<NumConnectors + 1>>
  /\ Len(ErrorLogs(log)) >= 1
  /\ error = closeMessage(1006, "timeout")
  /\ cb = <<>>

\* C30: boot, the close handler, disconnect and reset start and cancel no
\* timer: the live timers, the heartbeat handle and the handles stored for the
\* connectors are as before; and a tick does its work whatever the status of
\* the station: a heartbeat tick sends a heartbeat, a tick of a connector's
\* timer raises its meterValue by the step and sends one meter value.
C30_ConnectionKeepsTimers ==
  [][ /\ op'.name \in {"open", "close", "disconnect", "reset"} =>
           /\ timers' = timers
           /\ heartbeat' = heartbeat
           /\ autoMeterValueIntervals' = autoMeterValueIntervals
           /\ op'.cleared = <<>>
      /\ op'.name = "heartbeatTick" => out' = <<[type |-> "Heartbeat"]>>
      /\ (op'.name = "autoMeterValueTick" /\ op'.args[2] \in Existing) =>
           /\ connectors'[op'.args[2]].meterValue =
                connectors[op'.args[2]].meterValue + op'.args[3]
           /\ Len(Sent(out', "MeterValues")) = 1 ]_vars

\* C30 witness: after a close that left the station and connector 1
\* Unavailable, with the heartbeat timer still live, the timer of connector 1
\* ticked: a meter value was sent and the meter raised.
C30_Witness ==
  /\ op.name = "autoMeterValueTick" /\ op.args[2] = 1
  /\ status = "Unavailable" /\ connectors[1].status = "Unavailable"
  /\ ws = "closed" /\ error = closeMessage(1006, "timeout")
  /\ HeartbeatTimers(timers) # {}
  /\ connectors[1].meterValue = 10
  /\ Len(Sent(out, "MeterValues")) = 1

====
